---- MODULE Spec2Model ----
(***************************************************************************)
(* Path probing of the Rust front end: TraitItemReference / TraitReference *)
(* (rust-hir-trait-ref.h), TypeBoundsProbe::scan (rust-tyty-bounds.cc),    *)
(* PathProbeType and ReportMultipleCandidateError (rust-hir-path-probe.h). *)
(***************************************************************************)
EXTENDS Naturals, Sequences, FiniteSets

VARIABLES
    implBlocks,        \* registry: implementation blocks, in iteration (HirId) order
    implItems,         \* registry: implementation items, in iteration (HirId) order
    typeCache,         \* HirIds for which context->lookup_type succeeds
    pc,                \* what the caller holds: "idle", "probed", "aborted", "scanned", "reported"
    receiver,          \* PathProbeType::receiver / TypeBoundsProbe::receiver
    search,            \* PathProbeType::search
    candidates,        \* PathProbeType::candidates, as returned by Probe
    trait_references,  \* TypeBoundsProbe::trait_references, as returned by Probe
    diagnostics,       \* diagnostics emitted by rust_error_at
    lhs,               \* a TraitItemReference object
    rhs,               \* another TraitItemReference object
    assigned,          \* the last copy-assignment: its target, source and outcome
    tyty               \* the outcome of the last get_tyty call on lhs

vars == <<implBlocks, implItems, typeCache, pc, receiver, search, candidates,
          trait_references, diagnostics, lhs, rhs, assigned, tyty>>

probeVars == <<implBlocks, implItems, typeCache, pc, receiver, search, candidates,
               trait_references, diagnostics>>

itemVars == <<lhs, rhs, assigned, tyty>>

----------------------------------------------------------------------------
(* Bounds of the model *)

MaxBlocks == 2

MaxItems == 2

MaxSubst == 2

----------------------------------------------------------------------------
(* Universe of declarations *)

NULL == 0

NoTrait == "no_trait_ref"

\* Receiver types of a probe.
ReceiverTypes == {"Foo", "RefMutFoo"}

\* The implementation blocks a crate is made of: inherent ones, and trait
\* implementations with the trait path they name and their self type. The trait
\* path "V" does not resolve.
ImplBlockDecls ==
    { [trait_ref |-> NoTrait, type |-> "Foo"],
      [trait_ref |-> "T", type |-> "Foo"],
      [trait_ref |-> "U", type |-> "Foo"],
      [trait_ref |-> "T", type |-> "RefFoo"],
      [trait_ref |-> "V", type |-> "Foo"] }

Names == {"baz", "qux"}

ImplItemDecls ==
    { [name |-> "baz", kind |-> "ConstantItem"],
      [name |-> "qux", kind |-> "Function"],
      [name |-> "qux", kind |-> "TypeAlias"] }

SubstParams == {"S1", "S2"}

----------------------------------------------------------------------------
(* TraitItemReference and TraitReference *)

\* TraitItemReference::TraitItemReference (the context is the type-check singleton)
TraitItemReference(identifier, optional, type, hir_trait_item, self, substitutions, locus) ==
    [identifier |-> identifier, optional_flag |-> optional, type |-> type,
     hir_trait_item |-> hir_trait_item, inherited_substitutions |-> substitutions,
     locus |-> locus, self |-> self, context |-> "context"]

\* TraitItemReference::error and error_node: the shared sentinel
error_node ==
    TraitItemReference("", FALSE, "ERROR", NULL, "nullptr", <<>>, <<"unknown", 0>>)

is_error_item(item) == item.type = "ERROR"

is_optional(item) == item.optional_flag

get_identifier(item) == item.identifier

get_trait_item_type(item) == item.type

get_locus(item) == item.locus

\* The TyTy::BaseType get_tyty hands back; "rust_assert" is the failed assertion.
TyTyResult(of, id) == [of |-> of, id |-> id]

\* TraitItemReference::get_error: new ErrorType (get_mappings ().get_hirid ())
get_error(item) == TyTyResult("ErrorType", item.hir_trait_item)

\* get_tyty without its assertion on the declaration reference
get_tyty_unasserted(item) ==
    CASE item.type = "CONST" -> TyTyResult("ConstType", item.hir_trait_item)
      [] item.type = "TYPE"  -> TyTyResult("AliasType", item.hir_trait_item)
      [] item.type = "FN"    -> TyTyResult("FnType", item.hir_trait_item)
      [] OTHER               -> get_error(item)

\* TraitItemReference::get_tyty
get_tyty(item) ==
    IF item.hir_trait_item = NULL
    THEN TyTyResult("rust_assert", NULL)
    ELSE CASE item.type = "CONST" -> TyTyResult("ConstType", item.hir_trait_item)
           [] item.type = "TYPE"  -> TyTyResult("AliasType", item.hir_trait_item)
           [] item.type = "FN"    -> TyTyResult("FnType", item.hir_trait_item)
           [] OTHER               -> get_error(item)

\* TraitReference::TraitReference
TraitReference(hir_trait_ref, item_refs) ==
    [hir_trait_ref |-> hir_trait_ref, item_refs |-> item_refs]

\* TraitReference::error
TraitReference_error == TraitReference("nullptr", <<>>)

\* TraitReference::is_error
is_error_trait(trait_ref) == trait_ref.hir_trait_ref = "nullptr"

RECURSIVE lookup_from(_, _, _)
lookup_from(trait_ref, ident, k) ==
    IF k > Len(trait_ref.item_refs)
    THEN error_node
    ELSE IF ident = get_identifier(trait_ref.item_refs[k])
         THEN trait_ref.item_refs[k]
         ELSE lookup_from(trait_ref, ident, k + 1)

\* TraitReference::lookup_trait_item (const std::string &)
lookup_trait_item(trait_ref, ident) == lookup_from(trait_ref, ident, 1)

\* The traits of the program, as the trait resolver builds them.
TraitT ==
    TraitReference("T",
      << TraitItemReference("baz", TRUE, "FN", 11, "Self", <<>>, <<"T", 1>>),
         TraitItemReference("qux", FALSE, "FN", 12, "Self", <<>>, <<"T", 2>>) >>)

TraitU ==
    TraitReference("U",
      << TraitItemReference("baz", TRUE, "CONST", 21, "Self", <<>>, <<"U", 1>>),
         TraitItemReference("qux", TRUE, "TYPE", 22, "Self", <<>>, <<"U", 2>>) >>)

\* TraitResolver::Resolve: memoized, the error sentinel for a path that names no trait
Resolve(path) ==
    CASE path = "T" -> TraitT
      [] path = "U" -> TraitU
      [] OTHER      -> TraitReference_error

----------------------------------------------------------------------------
(* Registry and type cache *)

ImplTypeId(b) == <<"impl_type", b>>

ImplItemId(i) == <<"impl_item", i>>

\* context->lookup_type: found or not
lookup_type(id) == id \in typeCache

has_trait_ref(b) == implBlocks[b].trait_ref # NoTrait

\* BaseType::can_eq (other, false): structural, ignoring reference mutability
can_eq(ty, other) ==
    \/ ty = other
    \/ {ty, other} \subseteq {"RefFoo", "RefMutFoo"}

ItemsOf(b) == {i \in 1..Len(implItems) : implItems[i].impl = b}

----------------------------------------------------------------------------
(* TypeBoundsProbe *)

\* the visitor with its compatibility test inverted
scan_impl_block_inverted(R, b, possible_trait_paths) ==
    IF ~has_trait_ref(b)
    THEN possible_trait_paths
    ELSE IF ~lookup_type(ImplTypeId(b))
         THEN possible_trait_paths
         ELSE IF can_eq(R, implBlocks[b].type)
              THEN possible_trait_paths
              ELSE Append(possible_trait_paths, implBlocks[b].trait_ref)

\* the visitor of iterate_impl_blocks in TypeBoundsProbe::scan
scan_impl_block(R, b, possible_trait_paths) ==
    IF ~has_trait_ref(b)
    THEN possible_trait_paths
    ELSE IF ~lookup_type(ImplTypeId(b))
         THEN possible_trait_paths
         ELSE IF ~can_eq(R, implBlocks[b].type)
              THEN possible_trait_paths
              ELSE Append(possible_trait_paths, implBlocks[b].trait_ref)

RECURSIVE iterate_impl_blocks(_, _, _)
iterate_impl_blocks(R, b, possible_trait_paths) ==
    IF b > Len(implBlocks)
    THEN possible_trait_paths
    ELSE iterate_impl_blocks(R, b + 1, scan_impl_block(R, b, possible_trait_paths))

\* the second loop without its is_error test
resolve_trait_path_unchecked(refs, trait_path) ==
    Append(refs, Resolve(trait_path))

\* the second loop of TypeBoundsProbe::scan, one trait path
resolve_trait_path(refs, trait_path) ==
    IF ~is_error_trait(Resolve(trait_path))
    THEN Append(refs, Resolve(trait_path))
    ELSE refs

RECURSIVE resolve_trait_paths(_, _, _)
resolve_trait_paths(paths, k, refs) ==
    IF k > Len(paths)
    THEN refs
    ELSE resolve_trait_paths(paths, k + 1, resolve_trait_path(refs, paths[k]))

\* TypeBoundsProbe::scan, then TypeBoundsProbe::Probe's return of trait_references
scan(R) == resolve_trait_paths(iterate_impl_blocks(R, 1, <<>>), 1, <<>>)

----------------------------------------------------------------------------
(* PathProbeType *)

ImplCandidateTypes == {"IMPL_CONST", "IMPL_TYPE_ALIAS", "IMPL_FUNC"}

TraitCandidateTypes == {"TRAIT_ITEM_CONST", "TRAIT_TYPE_ALIAS", "TRAIT_FUNC"}

is_impl_candidate(c) == c.type \in ImplCandidateTypes

is_trait_candidate(c) == c.type \in TraitCandidateTypes

\* the state of a running probe: its candidates, and whether an assertion failed
ProbeState(aborted, cands) == [aborted |-> aborted, candidates |-> cands]

ImplCandidateType(kind) ==
    CASE kind = "TypeAlias"    -> "IMPL_TYPE_ALIAS"
      [] kind = "ConstantItem" -> "IMPL_CONST"
      [] kind = "Function"     -> "IMPL_FUNC"

\* PathProbeType::visit (TypeAlias / ConstantItem / Function), by item->accept_vis
visit(st, query, i, current_impl) ==
    IF query = implItems[i].name
    THEN IF ~lookup_type(ImplItemId(i))
         THEN ProbeState(TRUE, st.candidates)
         ELSE ProbeState(FALSE,
                Append(st.candidates,
                  [type |-> ImplCandidateType(implItems[i].kind),
                   ty |-> TyTyResult("impl_item", i),
                   impl |-> [impl_item |-> i, parent |-> current_impl]]))
    ELSE st

\* process_impl_item_candidate without the receiver test
process_impl_item_candidate_any_receiver(st, R, query, i) ==
    IF ~lookup_type(ImplTypeId(implItems[i].impl))
    THEN ProbeState(TRUE, st.candidates)
    ELSE visit(st, query, i, implItems[i].impl)

\* process_impl_item_candidate passing over the items of trait implementations
process_impl_item_candidate_inherent_only(st, R, query, i) ==
    IF ~lookup_type(ImplTypeId(implItems[i].impl))
    THEN ProbeState(TRUE, st.candidates)
    ELSE IF ~can_eq(R, implBlocks[implItems[i].impl].type)
         THEN st
         ELSE IF has_trait_ref(implItems[i].impl)
              THEN st
              ELSE visit(st, query, i, implItems[i].impl)

\* PathProbeType::process_impl_item_candidate
process_impl_item_candidate(st, R, query, i) ==
    IF ~lookup_type(ImplTypeId(implItems[i].impl))
    THEN ProbeState(TRUE, st.candidates)
    ELSE IF ~can_eq(R, implBlocks[implItems[i].impl].type)
         THEN st
         ELSE visit(st, query, i, implItems[i].impl)

RECURSIVE iterate_impl_items(_, _, _, _)
iterate_impl_items(st, R, query, i) ==
    IF i > Len(implItems) \/ st.aborted
    THEN st
    ELSE iterate_impl_items(process_impl_item_candidate(st, R, query, i), R, query, i + 1)

\* PathProbeType::process_impl_items_for_candidates
process_impl_items_for_candidates(st, R, query) == iterate_impl_items(st, R, query, 1)

TraitCandidateType(type) ==
    CASE type = "FN"    -> "TRAIT_FUNC"
      [] type = "CONST" -> "TRAIT_ITEM_CONST"
      [] type = "TYPE"  -> "TRAIT_TYPE_ALIAS"

\* the loop body without its is_optional test
process_trait_for_candidates_any_item(st, query, trait_ref) ==
    IF is_error_item(lookup_trait_item(trait_ref, query))
    THEN st
    ELSE ProbeState(FALSE,
           Append(st.candidates,
             [type |-> TraitCandidateType(
                         get_trait_item_type(lookup_trait_item(trait_ref, query))),
              ty |-> get_tyty(lookup_trait_item(trait_ref, query)),
              trait |-> [trait_ref |-> trait_ref,
                         item_ref |-> lookup_trait_item(trait_ref, query)]]))

\* the body of the loop of PathProbeType::process_traits_for_candidates
process_trait_for_candidates(st, query, trait_ref) ==
    IF is_error_item(lookup_trait_item(trait_ref, query))
    THEN st
    ELSE IF ~is_optional(lookup_trait_item(trait_ref, query))
         THEN st
         ELSE IF get_tyty(lookup_trait_item(trait_ref, query)).of = "rust_assert"
              THEN ProbeState(TRUE, st.candidates)
              ELSE ProbeState(FALSE,
                     Append(st.candidates,
                       [type |-> TraitCandidateType(
                                   get_trait_item_type(lookup_trait_item(trait_ref, query))),
                        ty |-> get_tyty(lookup_trait_item(trait_ref, query)),
                        trait |-> [trait_ref |-> trait_ref,
                                   item_ref |-> lookup_trait_item(trait_ref, query)]]))

RECURSIVE process_traits_from(_, _, _, _)
process_traits_from(st, query, traits, k) ==
    IF k > Len(traits) \/ st.aborted
    THEN st
    ELSE process_traits_from(process_trait_for_candidates(st, query, traits[k]),
                             query, traits, k + 1)

\* PathProbeType::process_traits_for_candidates
process_traits_for_candidates(st, query, traits) ==
    IF st.aborted THEN st ELSE process_traits_from(st, query, traits, 1)

\* Probe with the two passes in the other order
PathProbe_traits_first(R, query) ==
    process_impl_items_for_candidates(
        process_traits_for_candidates(ProbeState(FALSE, <<>>), query, scan(R)),
        R, query)

\* PathProbeType::Probe
PathProbe(R, query) ==
    process_traits_for_candidates(
        process_impl_items_for_candidates(ProbeState(FALSE, <<>>), R, query),
        query, scan(R))

----------------------------------------------------------------------------
(* ReportMultipleCandidateError *)

QueryLocus == <<"use", 0>>

\* get_locus of an implementation item's declaration node
ImplItemLocus(i) == <<"impl_item", i>>

\* ReportMultipleCandidateError::visit (TypeAlias / ConstantItem / Function)
report_visit(r, i) ==
    CASE implItems[i].kind = "TypeAlias"    -> Append(r, ImplItemLocus(i))
      [] implItems[i].kind = "ConstantItem" -> Append(r, ImplItemLocus(i))
      [] implItems[i].kind = "Function"     -> Append(r, ImplItemLocus(i))

\* the switch without its trait cases
report_candidate_impl_only(r, c) ==
    IF c.type \in ImplCandidateTypes
    THEN report_visit(r, c.impl.impl_item)
    ELSE r

\* the switch of the loop of ReportMultipleCandidateError::Report
report_candidate(r, c) ==
    IF c.type \in ImplCandidateTypes
    THEN report_visit(r, c.impl.impl_item)
    ELSE Append(r, get_locus(c.trait.item_ref))

RECURSIVE report_candidates(_, _, _)
report_candidates(r, cands, k) ==
    IF k > Len(cands)
    THEN r
    ELSE report_candidates(report_candidate(r, cands[k]), cands, k + 1)

\* ReportMultipleCandidateError::Report: the RichLocation handed to rust_error_at
ReportDiagnostic(cands, query, query_locus) ==
    [locus |-> query_locus,
     ranges |-> report_candidates(<<>>, cands, 1),
     message |-> query]

----------------------------------------------------------------------------
(* Initial state: an empty registry and type cache, nothing probed yet *)

NoAssignment == [dst |-> "none", src |-> "none", outcome |-> "none"]

NoTyTy == TyTyResult("none", NULL)

Init ==
    /\ implBlocks = <<>>
    /\ implItems = <<>>
    /\ typeCache = {}
    /\ pc = "idle"
    /\ receiver = "none"
    /\ search = "none"
    /\ candidates = <<>>
    /\ trait_references = <<>>
    /\ diagnostics = <<>>
    /\ lhs = error_node
    /\ rhs = error_node
    /\ assigned = NoAssignment
    /\ tyty = NoTyTy

----------------------------------------------------------------------------
(* The passes that run ahead of probing *)

ItemLists(n) == UNION {[1..k -> ImplItemDecls] : k \in 0..n}

\* Lowering of one implementation block: the block and its items are registered.
LowerImplBlock(decl, items) ==
    /\ pc = "idle"
    /\ typeCache = {}
    /\ Len(implBlocks) < MaxBlocks
    /\ Len(implItems) + Len(items) <= MaxItems
    /\ implBlocks' = Append(implBlocks, decl)
    /\ implItems' = implItems \o
         [k \in 1..Len(items) |->
            [name |-> items[k].name, kind |-> items[k].kind,
             impl |-> Len(implBlocks) + 1]]
    /\ UNCHANGED <<typeCache, pc, receiver, search, candidates, trait_references,
                   diagnostics>>
    /\ UNCHANGED itemVars

\* Type checking of one implementation block, in the order of the crate's items:
\* its self type and its items' types enter the type cache.
TypeCheckImplBlock(b) ==
    /\ pc = "idle"
    /\ ImplTypeId(b) \notin typeCache
    /\ \A a \in 1..(b - 1) : ImplTypeId(a) \in typeCache
    /\ typeCache' = typeCache \cup {ImplTypeId(b)} \cup {ImplItemId(i) : i \in ItemsOf(b)}
    /\ UNCHANGED <<implBlocks, implItems, pc, receiver, search, candidates,
                   trait_references, diagnostics>>
    /\ UNCHANGED itemVars

----------------------------------------------------------------------------
(* The operations *)

\* TypeBoundsProbe::Probe (receiver)
ScanBounds(R) ==
    /\ pc = "idle"
    /\ pc' = "scanned"
    /\ receiver' = R
    /\ trait_references' = scan(R)
    /\ UNCHANGED <<implBlocks, implItems, typeCache, search, candidates, diagnostics>>
    /\ UNCHANGED itemVars

\* PathProbeType::Probe (receiver, segment_name); a failed rust_assert ends the run
Probe(R, query) ==
    /\ pc = "idle"
    /\ receiver' = R
    /\ search' = query
    /\ IF PathProbe(R, query).aborted
       THEN /\ pc' = "aborted"
            /\ candidates' = <<>>
            /\ trait_references' = <<>>
       ELSE /\ pc' = "probed"
            /\ candidates' = PathProbe(R, query).candidates
            /\ trait_references' = scan(R)
    /\ UNCHANGED <<implBlocks, implItems, typeCache, diagnostics>>
    /\ UNCHANGED itemVars

\* ReportMultipleCandidateError::Report (candidates, query, query_locus)
Report ==
    /\ pc = "probed"
    /\ pc' = "reported"
    /\ diagnostics' = Append(diagnostics, ReportDiagnostic(candidates, search, QueryLocus))
    /\ UNCHANGED <<implBlocks, implItems, typeCache, receiver, search, candidates,
                   trait_references>>
    /\ UNCHANGED itemVars

\* The caller is done with what the probe returned.
Discard ==
    /\ pc \in {"probed", "scanned", "reported"}
    /\ pc' = "idle"
    /\ receiver' = "none"
    /\ search' = "none"
    /\ candidates' = <<>>
    /\ trait_references' = <<>>
    /\ diagnostics' = <<>>
    /\ UNCHANGED <<implBlocks, implItems, typeCache>>
    /\ UNCHANGED itemVars

Next ==
    \/ \E decl \in ImplBlockDecls, items \in ItemLists(MaxItems) :
          LowerImplBlock(decl, items)
    \/ \E b \in 1..Len(implBlocks) : TypeCheckImplBlock(b)
    \/ \E R \in ReceiverTypes, query \in Names : Probe(R, query)
    \/ Report
    \/ Discard

Spec == Init /\ [][Next]_vars

\* Bound probing on its own, as the type checker calls it.
ScanNext ==
    \/ \E decl \in ImplBlockDecls, items \in ItemLists(MaxItems) :
          LowerImplBlock(decl, items)
    \/ \E b \in 1..Len(implBlocks) : TypeCheckImplBlock(b)
    \/ \E R \in ReceiverTypes : ScanBounds(R)
    \/ Discard

ScanSpec == Init /\ [][ScanNext]_vars

----------------------------------------------------------------------------
(* TraitItemReference objects: construction, lookup, copy-assignment, get_tyty *)

SubstLists == UNION {[1..k -> SubstParams] : k \in 0..MaxSubst}

\* What the trait resolver, or any caller of the public constructor, can build.
ItemShapes ==
    { [identifier |-> "baz", optional |-> TRUE, type |-> "FN", hir_trait_item |-> 11],
      [identifier |-> "qux", optional |-> FALSE, type |-> "FN", hir_trait_item |-> 12],
      [identifier |-> "baz", optional |-> TRUE, type |-> "CONST", hir_trait_item |-> 21],
      [identifier |-> "qux", optional |-> TRUE, type |-> "TYPE", hir_trait_item |-> 22],
      [identifier |-> "qux", optional |-> FALSE, type |-> "ERROR", hir_trait_item |-> 31] }

Running == assigned.outcome # "bad_alloc" /\ tyty.of # "rust_assert"

\* TraitItemReference::TraitItemReference on one of the two objects
Construct(target, shape, substitutions) ==
    /\ Running
    /\ LET item == TraitItemReference(shape.identifier, shape.optional, shape.type,
                                      shape.hir_trait_item, "Self", substitutions,
                                      <<"T", 1>>)
       IN  /\ lhs' = IF target = "lhs" THEN item ELSE lhs
           /\ rhs' = IF target = "rhs" THEN item ELSE rhs
    /\ assigned' = NoAssignment
    /\ tyty' = NoTyTy
    /\ UNCHANGED probeVars

\* a copy of what TraitReference::lookup_trait_item returns
LookupTraitItem(trait_ref, ident) ==
    /\ Running
    /\ lhs' = lookup_trait_item(trait_ref, ident)
    /\ assigned' = NoAssignment
    /\ tyty' = NoTyTy
    /\ UNCHANGED <<rhs>>
    /\ UNCHANGED probeVars

\* TraitItemReference::operator= (TraitItemReference const &), this and other distinct
operator_assign(this, other) ==
    [identifier |-> other.identifier,
     optional_flag |-> other.optional_flag,
     type |-> other.type,
     hir_trait_item |-> other.hir_trait_item,
     self |-> other.self,
     locus |-> other.locus,
     context |-> other.context,
     inherited_substitutions |->
        this.inherited_substitutions \o other.inherited_substitutions]

Obj(name) == IF name = "lhs" THEN lhs ELSE rhs

\* dst = src, on two distinct objects
CopyAssign(dst, src) ==
    /\ Running
    /\ dst # src
    /\ Len(Obj(dst).inherited_substitutions) + Len(Obj(src).inherited_substitutions)
          <= MaxSubst
    /\ lhs' = IF dst = "lhs" THEN operator_assign(lhs, rhs) ELSE lhs
    /\ rhs' = IF dst = "rhs" THEN operator_assign(rhs, lhs) ELSE rhs
    /\ assigned' = [dst |-> dst, src |-> src, outcome |-> "returned"]
    /\ tyty' = NoTyTy
    /\ UNCHANGED probeVars

\* obj = obj: other aliases this, so the loop's bound other.size () grows with every
\* push_back and the loop ends only when the allocation fails
CopyAssignSelf(obj) ==
    /\ Running
    /\ assigned' = [dst |-> obj, src |-> obj,
                    outcome |-> IF Obj(obj).inherited_substitutions = <<>>
                                THEN "returned" ELSE "bad_alloc"]
    /\ tyty' = NoTyTy
    /\ UNCHANGED <<lhs, rhs>>
    /\ UNCHANGED probeVars

\* lhs.get_tyty ()
GetTyTy ==
    /\ Running
    /\ tyty' = get_tyty(lhs)
    /\ UNCHANGED <<lhs, rhs, assigned>>
    /\ UNCHANGED probeVars

ItemNext ==
    \/ \E target \in {"lhs", "rhs"}, shape \in ItemShapes, substitutions \in SubstLists :
          Construct(target, shape, substitutions)
    \/ \E trait_ref \in {TraitT, TraitU}, ident \in Names \cup {"quux"} :
          LookupTraitItem(trait_ref, ident)
    \/ \E dst \in {"lhs", "rhs"}, src \in {"lhs", "rhs"} : CopyAssign(dst, src)
    \/ \E obj \in {"lhs", "rhs"} : CopyAssignSelf(obj)
    \/ GetTyTy

ItemSpec == Init /\ [][ItemNext]_vars

----------------------------------------------------------------------------
(* Properties of Probe, checked under Spec *)

\* Probe has returned a candidate sequence the caller still holds.
Returned == pc \in {"probed", "reported"}

Range(seq) == {seq[k] : k \in DOMAIN seq}

\* The registered items named like the query whose owning block's self type is
\* resolved and compatible with the receiver.
MatchingItems ==
    {i \in DOMAIN implItems :
        /\ implItems[i].name = search
        /\ ImplTypeId(implItems[i].impl) \in typeCache
        /\ can_eq(receiver, implBlocks[implItems[i].impl].type)}

ImplPositions == {k \in DOMAIN candidates : is_impl_candidate(candidates[k])}

TraitPositions == {k \in DOMAIN candidates : is_trait_candidate(candidates[k])}

KindTag(kind) ==
    IF kind = "Function" THEN "IMPL_FUNC"
    ELSE IF kind = "ConstantItem" THEN "IMPL_CONST" ELSE "IMPL_TYPE_ALIAS"

\* C1: the inherent candidates Probe returns are exactly one per registered item
\* whose identifier equals the query and whose owning block's self type is
\* compatible with the receiver, each tagged with the item's kind and owning block.
C1_InherentCandidates ==
    Returned =>
      /\ \A i \in MatchingItems :
            Cardinality({k \in ImplPositions : candidates[k].impl.impl_item = i}) = 1
      /\ \A k \in ImplPositions :
            /\ candidates[k].impl.impl_item \in MatchingItems
            /\ candidates[k].impl.parent = implItems[candidates[k].impl.impl_item].impl
            /\ candidates[k].type = KindTag(implItems[candidates[k].impl.impl_item].kind)

\* C1 witness: a probe returned a candidate for one item and none for another
\* item of a compatible block with a different name, nor for an item of that name
\* in an incompatible block.
C1_Witness ==
    /\ pc = "probed"
    /\ ImplPositions # {}
    /\ \E i \in DOMAIN implItems : i \notin MatchingItems
    /\ \E i \in DOMAIN implItems :
          implItems[i].name = search /\ ~can_eq(receiver, implBlocks[implItems[i].impl].type)

\* C2: every trait-default candidate Probe returns refers to a non-error trait
\* item named like the query that is optional; a mandatory item never appears.
C2_TraitDefaultsOptional ==
    Returned =>
      \A k \in TraitPositions :
         /\ candidates[k].trait.item_ref.type # "ERROR"
         /\ candidates[k].trait.item_ref.identifier = search
         /\ candidates[k].trait.item_ref.optional_flag = TRUE
         /\ candidates[k].trait.item_ref \in Range(candidates[k].trait.trait_ref.item_refs)

\* C2 witness: the receiver satisfies T, whose item qux is mandatory, and U, whose
\* item qux is optional; the probe for qux returned U's item as a candidate.
C2_Witness ==
    /\ pc = "probed"
    /\ search = "qux"
    /\ TraitT \in Range(trait_references)
    /\ TraitPositions # {}

\* C3 as stated: Probe (Foo, qux) is empty when Foo implements T through a block
\* that defines qux, and inherent candidates come from traitless blocks only.
C3_NoCandidateFromTraitImpl ==
    Returned =>
      /\ \A k \in ImplPositions : implBlocks[candidates[k].impl.parent].trait_ref = NoTrait
      /\ ((/\ receiver = "Foo"
           /\ search = "qux"
           /\ \A b \in DOMAIN implBlocks :
                 implBlocks[b] = [trait_ref |-> "T", type |-> "Foo"])
          => candidates = <<>>)

\* C3 amended: a probe for a mandatory item of T returns no trait-default candidate
\* of T, and it returns an IMPL candidate, owned by the trait-implementing block, for
\* every registered item of that name in a compatible trait-implementing block.
C3_TraitImplItemsAreCandidates ==
    Returned =>
      /\ \A i \in DOMAIN implItems :
            (/\ implBlocks[implItems[i].impl].trait_ref # NoTrait
             /\ implItems[i].name = search
             /\ can_eq(receiver, implBlocks[implItems[i].impl].type))
            => \E k \in ImplPositions :
                  /\ candidates[k].impl.impl_item = i
                  /\ candidates[k].impl.parent = implItems[i].impl
      /\ (search = "qux" =>
            \A k \in TraitPositions : candidates[k].trait.trait_ref # TraitT)

\* C3 witness: Foo implements T through a block that defines qux; the probe of
\* Foo for qux returned that definition as an IMPL_FUNC candidate.
C3_Witness ==
    /\ pc = "probed"
    /\ receiver = "Foo"
    /\ search = "qux"
    /\ TraitT \in Range(trait_references)
    /\ \E k \in ImplPositions :
          /\ candidates[k].type = "IMPL_FUNC"
          /\ implBlocks[candidates[k].impl.parent] = [trait_ref |-> "T", type |-> "Foo"]

\* C5 as stated: a type-cache miss on a block's self type is never fatal; the
\* probe always completes.
C5_MissNeverFatal == pc # "aborted"

\* The positions of the satisfied traits that have an optional item of the
\* queried name first among their items of that name.
DefaultPositions ==
    {t \in DOMAIN trait_references :
        \E j \in DOMAIN trait_references[t].item_refs :
           /\ trait_references[t].item_refs[j].identifier = search
           /\ trait_references[t].item_refs[j].optional_flag
           /\ \A h \in 1..(j - 1) : trait_references[t].item_refs[h].identifier # search}

\* The blocks whose trait the bound probe reports for the receiver.
BoundBlocks ==
    {b \in DOMAIN implBlocks :
        /\ implBlocks[b].trait_ref # NoTrait
        /\ ImplTypeId(b) \in typeCache
        /\ can_eq(receiver, implBlocks[b].type)
        /\ implBlocks[b].trait_ref \in {"T", "U"}}

Rank(x, S) == Cardinality({y \in S : y <= x})

\* C9: the result is the inherent pass followed by the trait-default pass: the
\* inherent candidates in registry iteration order, then at most one trait-default
\* candidate per satisfied trait, in the order of the trait sequence, which is in
\* implementation-block iteration order.
C9_PassOrder ==
    Returned =>
      /\ Len(candidates) = Cardinality(MatchingItems) + Cardinality(DefaultPositions)
      /\ \A i \in MatchingItems :
            /\ candidates[Rank(i, MatchingItems)].type \in ImplCandidateTypes
            /\ candidates[Rank(i, MatchingItems)].impl.impl_item = i
      /\ \A t \in DefaultPositions :
            LET k == Cardinality(MatchingItems) + Rank(t, DefaultPositions)
            IN  /\ candidates[k].type \in TraitCandidateTypes
                /\ candidates[k].trait.trait_ref = trait_references[t]
      /\ Len(trait_references) = Cardinality(BoundBlocks)
      /\ \A b \in BoundBlocks :
            trait_references[Rank(b, BoundBlocks)].hir_trait_ref = implBlocks[b].trait_ref

\* C9 witness: a probe returned an inherent candidate followed by the defaults of
\* two different traits.
C9_Witness ==
    /\ pc = "probed"
    /\ ImplPositions # {}
    /\ \E k, m \in TraitPositions :
          candidates[k].trait.trait_ref # candidates[m].trait.trait_ref

\* The definition location of a candidate.
DefinitionLocus(c) ==
    IF c.type \in ImplCandidateTypes
    THEN <<"impl_item", c.impl.impl_item>>
    ELSE c.trait.item_ref.locus

\* C6: for a candidate sequence of length two or more, Report emits exactly one
\* diagnostic, anchored at the use site, whose ranges contain the definition
\* location of every candidate.
C6_ReportCoversCandidates ==
    (pc = "reported" /\ Len(candidates) >= 2) =>
      /\ Len(diagnostics) = 1
      /\ diagnostics[1].locus = QueryLocus
      /\ diagnostics[1].message = search
      /\ \A k \in DOMAIN candidates :
            DefinitionLocus(candidates[k]) \in Range(diagnostics[1].ranges)

\* C6 witness: an ambiguity between an inherent candidate and a trait default was
\* reported.
C6_Witness ==
    /\ pc = "reported"
    /\ Len(candidates) >= 2
    /\ ImplPositions # {}
    /\ TraitPositions # {}

----------------------------------------------------------------------------
(* Properties of the bound probe, checked under ScanSpec *)

\* C4 as stated: the scan result contains the trait of every trait-implementing
\* block whose self type equals the receiver, whatever the resolver yields.
C4_EveryImplementedTrait ==
    pc = "scanned" =>
      \A b \in DOMAIN implBlocks :
         (/\ implBlocks[b].trait_ref # NoTrait
          /\ ImplTypeId(b) \in typeCache
          /\ implBlocks[b].type = receiver)
         => \E k \in DOMAIN trait_references :
               trait_references[k].hir_trait_ref = implBlocks[b].trait_ref

\* C4 amended: the scan result contains the trait of every trait-implementing
\* block whose self type is in the type cache and equals the receiver, provided the
\* resolver resolves the block's trait path; a path that resolves to the error
\* sentinel contributes nothing.
C4_EveryResolvedTrait ==
    pc = "scanned" =>
      \A b \in DOMAIN implBlocks :
         (/\ implBlocks[b].trait_ref # NoTrait
          /\ ImplTypeId(b) \in typeCache
          /\ implBlocks[b].type = receiver)
         => IF Resolve(implBlocks[b].trait_ref).hir_trait_ref = "nullptr"
            THEN \A k \in DOMAIN trait_references :
                    trait_references[k].hir_trait_ref # implBlocks[b].trait_ref
            ELSE \E k \in DOMAIN trait_references :
                    trait_references[k] = Resolve(implBlocks[b].trait_ref)

\* C4 witness: the receiver's type has a type-checked implementation of a trait
\* that resolves and one of a trait path that does not.
C4_Witness ==
    /\ pc = "scanned"
    /\ \E b, c \in DOMAIN implBlocks :
          /\ implBlocks[b] = [trait_ref |-> "T", type |-> receiver]
          /\ implBlocks[c] = [trait_ref |-> "V", type |-> receiver]
          /\ ImplTypeId(b) \in typeCache
          /\ ImplTypeId(c) \in typeCache

\* C7: no element of the scan result is an error trait reference.
C7_NoErrorTrait ==
    pc = "scanned" =>
      \A k \in DOMAIN trait_references :
         /\ trait_references[k].hir_trait_ref # "nullptr"
         /\ trait_references[k] \in {TraitT, TraitU}

\* C7 witness: the scan met a compatible type-checked block whose trait path
\* resolves to the error sentinel, and one whose path resolves.
C7_Witness ==
    /\ pc = "scanned"
    /\ trait_references # <<>>
    /\ \E b \in DOMAIN implBlocks :
          /\ implBlocks[b].trait_ref = "V"
          /\ ImplTypeId(b) \in typeCache
          /\ can_eq(receiver, implBlocks[b].type)

----------------------------------------------------------------------------
(* Properties of TraitItemReference, checked under ItemSpec *)

\* C8 as stated: get_tyty is total; it never fails an assertion, and on an
\* Error-kind item, the sentinel included, it returns an error type.
C8_GetTyTyTotal ==
    tyty.of # "none" =>
      /\ tyty.of # "rust_assert"
      /\ (lhs.type = "ERROR" => tyty.of = "ErrorType")

\* C8 amended: on an item whose declaration reference is not null get_tyty returns
\* the type of its kind, an error type for the Error kind; on an item whose
\* declaration reference is null, the error sentinel included, its assertion fails.
C8_GetTyTyNeedsDeclaration ==
    tyty.of # "none" =>
      IF lhs.hir_trait_item = NULL
      THEN tyty.of = "rust_assert"
      ELSE /\ tyty.id = lhs.hir_trait_item
           /\ (lhs.type = "CONST" => tyty.of = "ConstType")
           /\ (lhs.type = "TYPE" => tyty.of = "AliasType")
           /\ (lhs.type = "FN" => tyty.of = "FnType")
           /\ (lhs.type = "ERROR" => tyty.of = "ErrorType")

\* C8 witness: get_tyty was called on the error sentinel.
C8_Witness ==
    /\ tyty.of = "rust_assert"
    /\ lhs.type = "ERROR"
    /\ lhs.identifier = ""

\* C10 as stated: after a copy-assignment the target equals the source in every
\* field, the substitution list included, whatever the target held before; an
\* assignment of an item to itself returns and changes nothing.
C10_AssignCopies ==
    assigned.outcome # "none" =>
      /\ assigned.outcome = "returned"
      /\ Obj(assigned.dst) = Obj(assigned.src)

====
